---- MODULE Spec2Model ----
(***************************************************************************)
(* A model of the FFmpeg filter-graph subsystem of audiovisualizer:        *)
(* FilterNode / FilterGraph (ffmpeg_filter_graph/core.py), FilterRegistry  *)
(* (registry.py), FilterGraphConverter (converters.py) and                 *)
(* FilterGraphBuilder (builders.py).                                       *)
(*                                                                         *)
(* Representation.                                                         *)
(*   - A FilterNode object is a record; its identity is its index in the   *)
(*     heap `nodes` (1 .. Len(nodes)).  The Python value None is 0 where a *)
(*     node reference is expected and the empty sequence where an optional *)
(*     string is expected (<<l>> is the string l).                         *)
(*   - inputs / outputs are sequences of <<node, pad>> pairs; Python's     *)
(*     list index i is the sequence index i + 1.                           *)
(*   - input_labels / output_labels, graph.inputs / graph.outputs are      *)
(*     dicts: sequences of entries in insertion order, a key occurring at  *)
(*     most once (DictSet keeps the position of a key that is overwritten).*)
(*   - A str is a TLA+ string.  A parameter value is a record: an int      *)
(*     [num |-> TRUE, v |-> 36] or a str [num |-> FALSE, v |-> <<chars>>]  *)
(*     given as the sequence of its characters, so that _escape_param can  *)
(*     be computed character by character.                                 *)
(*     A float is [num |-> TRUE, repr |-> <<chars>>], given by its repr.   *)
(***************************************************************************)
EXTENDS Integers, Sequences, FiniteSets, TLC

VARIABLES
    nodes,      \* heap of FilterNode objects, by identity
    gnodes,     \* FilterGraph.nodes: sequence of node identities
    ginputs,    \* FilterGraph.inputs: dict name -> <<node, pad>>
    goutputs,   \* FilterGraph.outputs: dict name -> <<node, pad>>
    conns,      \* history: the connections made, <<A, padA, B, padB>>
    result,     \* outcome of the most recent call
    filters,    \* FilterRegistry.filters: dict filter_type -> metadata
    hist        \* history: a graph built by the same mutating calls and
                \* never serialized, kept only where hist.on

vars == <<nodes, gnodes, ginputs, goutputs, conns, result, filters, hist>>

----------------------------------------------------------------------------
(* Bounds of the model *)

MaxNodes == 3      \* FilterNode objects created
MaxOps == 6        \* mutating calls on one graph (create, connect, bind)
MaxCalls == 2      \* add_input / connect / set_output_label calls on bare nodes
MaxBindNodes == 2  \* nodes of a graph whose pads are bound under several names
MaxTextLen == 3    \* characters of a string parameter value
MaxBuilds == 2     \* FilterGraphBuilder calls on one graph
MaxRegNodes == 2   \* nodes of a graph validated against a changing registry
MaxPad == 2        \* highest output pad index labelled or queried
MaxDagEdges == 4   \* connections of a graph checked for false cycle reports
MaxStageOps == 5   \* calls that build a graph whose stages are inspected
MaxBinds == 3      \* connect / set_input / set_output calls on such a graph

----------------------------------------------------------------------------
(* Generic helpers: dicts as insertion-ordered sequences of <<key, value>> *)

Keys(d) == {d[i][1] : i \in 1..Len(d)}

DictGet(d, k) == LET i == CHOOSE j \in 1..Len(d) : d[j][1] = k IN d[i][2]

DictSet(d, k, v) ==
    IF k \in Keys(d)
    THEN [i \in 1..Len(d) |-> IF d[i][1] = k THEN <<k, v>> ELSE d[i]]
    ELSE Append(d, <<k, v>>)

RECURSIVE Concat(_)
Concat(ss) == IF ss = <<>> THEN "" ELSE Head(ss) \o Concat(Tail(ss))

RECURSIVE Join(_, _)
\* sep.join(ss)
Join(sep, ss) ==
    IF ss = <<>> THEN ""
    ELSE IF Len(ss) = 1 THEN ss[1]
    ELSE ss[1] \o sep \o Join(sep, Tail(ss))

RECURSIVE Flatten(_)
Flatten(sss) == IF sss = <<>> THEN <<>> ELSE Head(sss) \o Flatten(Tail(sss))

Reverse(s) == [i \in 1..Len(s) |-> s[Len(s) + 1 - i]]

----------------------------------------------------------------------------
(* core.py: _escape_param *)

Special == {":", ",", "[", "]", "\\"}

RECURSIVE Replace(_, _, _)
\* str.replace(c, r) for a one-character c; r is a sequence of characters
Replace(s, c, r) ==
    IF s = <<>> THEN <<>>
    ELSE (IF Head(s) = c THEN r ELSE <<Head(s)>>) \o Replace(Tail(s), c, r)

\* mutant of EscapedChars: the backslashes are doubled after the other
\* characters have been escaped
EscapedChars_backslash_last(chars) ==
    IF \E i \in 1..Len(chars) : chars[i] \in Special
    THEN LET s1 == Replace(chars, ":", <<"\\", ":">>)
             s2 == Replace(s1, ",", <<"\\", ",">>)
             s3 == Replace(s2, "[", <<"\\", "[">>)
             s4 == Replace(s3, "]", <<"\\", "]">>)
             s5 == Replace(s4, "\\", <<"\\", "\\">>)
         IN <<"'">> \o s5 \o <<"'">>
    ELSE chars

\* the str branch of _escape_param, as the characters of the returned string
EscapedChars(chars) ==
    IF \E i \in 1..Len(chars) : chars[i] \in Special
    THEN LET s1 == Replace(chars, "\\", <<"\\", "\\">>)
             s2 == Replace(s1, ":", <<"\\", ":">>)
             s3 == Replace(s2, ",", <<"\\", ",">>)
             s4 == Replace(s3, "[", <<"\\", "[">>)
             s5 == Replace(s4, "]", <<"\\", "]">>)
         IN <<"'">> \o s5 \o <<"'">>
    ELSE chars

\* _escape_param; str(value) of a float is given with the value as repr
_escape_param(value) ==
    IF value.num
    THEN IF "repr" \in DOMAIN value THEN Concat(value.repr) ELSE ToString(value.v)
    ELSE Concat(EscapedChars(value.v))

----------------------------------------------------------------------------
(* registry.py: FilterRegistry *)

\* _register_builtin_filters: the catalog after construction (the keys the
\* code reads: min_inputs, max_inputs, required_params)
BuiltinFilters ==
    <<  <<"buffer_src", [min_inputs |-> 0, max_inputs |-> 0, required_params |-> <<>>]>>,
        <<"format",  [min_inputs |-> 1, max_inputs |-> 1, required_params |-> <<"pix_fmt">>]>>,
        <<"overlay", [min_inputs |-> 2, max_inputs |-> 2, required_params |-> <<>>]>>,
        <<"drawtext", [min_inputs |-> 1, max_inputs |-> 1, required_params |-> <<"text">>]>>,
        <<"scale",   [min_inputs |-> 1, max_inputs |-> 1, required_params |-> <<>>]>>,
        <<"movie",   [min_inputs |-> 0, max_inputs |-> 0, required_params |-> <<"filename">>]>>,
        <<"colorchannelmixer", [min_inputs |-> 1, max_inputs |-> 1, required_params |-> <<>>]>>,
        <<"rotate",  [min_inputs |-> 1, max_inputs |-> 1, required_params |-> <<>>]>>,
        <<"fade",    [min_inputs |-> 1, max_inputs |-> 1, required_params |-> <<"type">>]>>,
        <<"fps",     [min_inputs |-> 1, max_inputs |-> 1, required_params |-> <<>>]>>,
        <<"setpts",  [min_inputs |-> 1, max_inputs |-> 1, required_params |-> <<"expr">>]>>  >>

\* self.filters.get(filter_type): <<>> is None, <<md>> is the metadata md
get_filter_metadata(filter_type) ==
    IF filter_type \in Keys(filters)
    THEN <<DictGet(filters, filter_type)>>
    ELSE <<>>

\* FilterRegistry.register_filter: self.filters[filter_type] = metadata
register_filter(catalog, filter_type, metadata) == DictSet(catalog, filter_type, metadata)

\* metadata.get(key, default)
MetaGet(md, key, default) == IF key \in DOMAIN md THEN md[key] ELSE default

\* len(node.inputs) > metadata.get('max_inputs', float('inf'))
ExceedsMax(md, n) == IF "max_inputs" \in DOMAIN md THEN n > md["max_inputs"] ELSE FALSE

\* the loop over required_params
RECURSIVE MissingParams(_, _, _)
MissingParams(req, node, acc) ==
    IF req = <<>> THEN acc
    ELSE MissingParams(Tail(req), node,
            IF Head(req) \in Keys(node.params) THEN acc
            ELSE Append(acc, "Missing required parameter '" \o Head(req)
                             \o "' for filter '" \o node.filter_type \o "'"))

\* mutant of MinInputsError: <= in place of <
MinInputsError_le(node, min_inputs) ==
    IF Len(node.inputs) <= min_inputs
    THEN << "Filter '" \o node.filter_type \o "' requires at least "
            \o ToString(min_inputs) \o " inputs, got " \o ToString(Len(node.inputs)) >>
    ELSE <<>>

MinInputsError(node, min_inputs) ==
    IF Len(node.inputs) < min_inputs
    THEN << "Filter '" \o node.filter_type \o "' requires at least "
            \o ToString(min_inputs) \o " inputs, got " \o ToString(Len(node.inputs)) >>
    ELSE <<>>

MaxInputsError(node, md) ==
    IF ExceedsMax(md, Len(node.inputs))
    THEN << "Filter '" \o node.filter_type \o "' accepts at most "
            \o ToString(md["max_inputs"]) \o " inputs, got " \o ToString(Len(node.inputs)) >>
    ELSE <<>>

\* FilterRegistry.validate_filter; `not metadata` holds of None and of {}
validate_filter(node) ==
    LET metadata == get_filter_metadata(node.filter_type) IN
    IF metadata = <<>> \/ DOMAIN metadata[1] = {}
    THEN << "Unknown filter type: " \o node.filter_type >>
    ELSE LET md == metadata[1] IN
         MissingParams(MetaGet(md, "required_params", <<>>), node, <<>>)
         \o MinInputsError(node, MetaGet(md, "min_inputs", 0))
         \o MaxInputsError(node, md)

----------------------------------------------------------------------------
(* core.py: FilterNode *)

\* FilterNode.__init__; label is <<>> (None) or <<l>>; suffix stands for
\* uuid.uuid4().hex[:8].  `label or ...` also replaces the empty string.
FilterNode(filter_type, label, params, suffix) ==
    [ filter_type   |-> filter_type,
      label         |-> IF label # <<>> /\ label[1] # "" THEN label[1]
                        ELSE filter_type \o "_" \o suffix,
      params        |-> params,
      inputs        |-> <<>>,
      outputs       |-> <<>>,
      input_labels  |-> <<>>,
      output_labels |-> <<>> ]

\* mutant of add_input: the two pad indices stored on the wrong sides
add_input_swapped(H, self, source, pad_index, source_pad) ==
    IF source # 0
    THEN LET H1 == [H EXCEPT ![self].inputs = Append(@, <<source, pad_index>>)]
         IN  [H1 EXCEPT ![source].outputs = Append(@, <<self, source_pad>>)]
    ELSE [H EXCEPT ![self].inputs = Append(@, <<0, pad_index>>)]

\* mutant of add_input: the placeholder of a None source is recorded among
\* the node's own outputs too
add_input_placeholder_output(H, self, source, pad_index, source_pad) ==
    IF source # 0
    THEN LET H1 == [H EXCEPT ![self].inputs = Append(@, <<source, source_pad>>)]
         IN  [H1 EXCEPT ![source].outputs = Append(@, <<self, pad_index>>)]
    ELSE [H EXCEPT ![self].inputs = Append(@, <<0, pad_index>>),
                   ![self].outputs = Append(@, <<self, pad_index>>)]

\* FilterNode.add_input on the heap H: self is the node `self`, source is a
\* node or 0 (None).  A FilterNode is always truthy, so `if source` is
\* `source is not None`.  Returns the heap after the call.
add_input(H, self, source, pad_index, source_pad) ==
    IF source # 0
    THEN LET H1 == [H EXCEPT ![self].inputs = Append(@, <<source, source_pad>>)]
         IN  [H1 EXCEPT ![source].outputs = Append(@, <<self, pad_index>>)]
    ELSE [H EXCEPT ![self].inputs = Append(@, <<0, pad_index>>)]

\* mutant of set_input_label: the override is stored among the output labels
set_input_label_as_output(H, self, pad_index, label) ==
    [H EXCEPT ![self].output_labels = DictSet(@, pad_index, label)]

set_input_label(H, self, pad_index, label) ==
    [H EXCEPT ![self].input_labels = DictSet(@, pad_index, label)]

set_output_label(H, self, pad_index, label) ==
    [H EXCEPT ![self].output_labels = DictSet(@, pad_index, label)]

\* mutant of get_output_label: pad 0 gets the "_out" suffix too
get_output_label_suffix_all(H, self, pad_index) ==
    IF pad_index \in Keys(H[self].output_labels)
    THEN DictGet(H[self].output_labels, pad_index)
    ELSE H[self].label \o "_out" \o ToString(pad_index)

\* FilterNode.get_output_label
get_output_label(H, self, pad_index) ==
    IF pad_index \in Keys(H[self].output_labels)
    THEN DictGet(H[self].output_labels, pad_index)
    ELSE IF pad_index > 0
         THEN H[self].label \o "_out" \o ToString(pad_index)
         ELSE H[self].label

\* mutant of get_input_label: the output label of the source is taken for
\* the pad with the index of the input instead of the recorded source pad
get_input_label_by_index(H, self, pad_index) ==
    IF pad_index \in Keys(H[self].input_labels)
    THEN <<DictGet(H[self].input_labels, pad_index)>>
    ELSE IF pad_index < Len(H[self].inputs)
         THEN LET source == H[self].inputs[pad_index + 1][1]
              IN  IF source # 0
                  THEN <<get_output_label(H, source, pad_index)>>
                  ELSE <<>>
         ELSE <<>>

\* FilterNode.get_input_label: <<>> is None
get_input_label(H, self, pad_index) ==
    IF pad_index \in Keys(H[self].input_labels)
    THEN <<DictGet(H[self].input_labels, pad_index)>>
    ELSE IF pad_index < Len(H[self].inputs)
         THEN LET source     == H[self].inputs[pad_index + 1][1]
                  source_pad == H[self].inputs[pad_index + 1][2]
              IN  IF source # 0
                  THEN <<get_output_label(H, source, source_pad)>>
                  ELSE <<>>
         ELSE <<>>

\* FilterNode.to_filter_string
node_to_filter_string(node) ==
    LET param_str ==
            Join(":", [i \in 1..Len(node.params) |->
                        node.params[i][1] \o "=" \o _escape_param(node.params[i][2])])
    IN  IF param_str # "" THEN node.filter_type \o "=" \o param_str
        ELSE node.filter_type

\* FilterNode.validate
node_validate(node) == validate_filter(node)

----------------------------------------------------------------------------
(* converters.py: FilterGraphConverter *)

\* A graph value g is [nodes, gnodes, inputs, outputs].

\* any(node == input_node for input_node, _ in graph.inputs.values())
IsExternalInput(g, n) == \E i \in 1..Len(g.inputs) : g.inputs[i][2][1] = n

RECURSIVE visit(_, _, _)
RECURSIVE VisitTargets(_, _, _)
\* mutant of visit: a node met again while temporarily marked is skipped
\* instead of raising
visit_no_raise(g, node, st) ==
    IF st.raised THEN st
    ELSE IF node \in st.temp_mark \/ node \in st.visited THEN st
    ELSE LET s1 == [st EXCEPT !.temp_mark = @ \cup {node}]
             s2 == VisitTargets(g, g.nodes[node].outputs, s1)
         IN  [s2 EXCEPT !.temp_mark = @ \ {node},
                        !.visited = @ \cup {node},
                        !.order = Append(@, node)]

\* mutant of visit: the temporary mark is not removed when the visit of the
\* node's targets is over
visit_keeps_mark(g, node, st) ==
    IF st.raised THEN st
    ELSE IF node \in st.temp_mark THEN [st EXCEPT !.raised = TRUE]
    ELSE IF node \in st.visited THEN st
    ELSE LET s1 == [st EXCEPT !.temp_mark = @ \cup {node}]
             s2 == VisitTargets(g, g.nodes[node].outputs, s1)
         IN  IF s2.raised THEN s2
             ELSE [s2 EXCEPT !.visited = @ \cup {node},
                             !.order = Append(@, node)]

\* the nested function visit(node); st is [visited, temp_mark, order, raised],
\* raised meaning ValueError("Graph contains a cycle") is propagating
visit(g, node, st) ==
    IF st.raised THEN st
    ELSE IF node \in st.temp_mark THEN [st EXCEPT !.raised = TRUE]
    ELSE IF node \in st.visited THEN st
    ELSE LET s1 == [st EXCEPT !.temp_mark = @ \cup {node}]
             s2 == VisitTargets(g, g.nodes[node].outputs, s1)
         IN  IF s2.raised THEN s2
             ELSE [s2 EXCEPT !.temp_mark = @ \ {node},
                             !.visited = @ \cup {node},
                             !.order = Append(@, node)]

\* for target, _ in node.outputs: visit(target)
VisitTargets(g, outs, st) ==
    IF outs = <<>> \/ st.raised THEN st
    ELSE VisitTargets(g, Tail(outs), visit(g, Head(outs)[1], st))

RECURSIVE VisitUnvisited(_, _, _)
\* mutant of VisitUnvisited: an unvisited node is appended without its
\* targets being visited first
VisitUnvisited_shallow(g, seq, st) ==
    IF seq = <<>> \/ st.raised THEN st
    ELSE VisitUnvisited(g, Tail(seq),
            IF Head(seq) \in st.visited THEN st
            ELSE [st EXCEPT !.visited = @ \cup {Head(seq)},
                            !.order = Append(@, Head(seq))])

\* for node in seq: if node not in visited: visit(node)
VisitUnvisited(g, seq, st) ==
    IF seq = <<>> \/ st.raised THEN st
    ELSE VisitUnvisited(g, Tail(seq),
            IF Head(seq) \in st.visited THEN st ELSE visit(g, Head(seq), st))

\* mutant of _topological_sort: the accumulated order is not reversed
_topological_sort_unreversed(g) ==
    LET st0 == [visited |-> {}, temp_mark |-> {}, order |-> <<>>, raised |-> FALSE]
        source_nodes ==
            SelectSeq(g.gnodes,
                      LAMBDA n : g.nodes[n].inputs = <<>> \/ IsExternalInput(g, n))
        st1 == VisitUnvisited(g, source_nodes, st0)
        st2 == VisitUnvisited(g, g.gnodes, st1)
    IN  [raised |-> st2.raised,
         order  |-> IF st2.raised THEN <<>> ELSE st2.order]

\* FilterGraphConverter._topological_sort: [raised, order]
_topological_sort(g) ==
    LET st0 == [visited |-> {}, temp_mark |-> {}, order |-> <<>>, raised |-> FALSE]
        source_nodes ==
            SelectSeq(g.gnodes,
                      LAMBDA n : g.nodes[n].inputs = <<>> \/ IsExternalInput(g, n))
        st1 == VisitUnvisited(g, source_nodes, st0)
        st2 == VisitUnvisited(g, g.gnodes, st1)
    IN  [raised |-> st2.raised,
         order  |-> IF st2.raised THEN <<>> ELSE Reverse(st2.order)]

\* the input-label loop of _node_to_string
NodeInputLabels(g, n) ==
    LET lab(i) == get_input_label(g.nodes, n, i - 1)
        idx == SelectSeq([i \in 1..Len(g.nodes[n].inputs) |-> i],
                         LAMBDA i : lab(i) # <<>> /\ lab(i)[1] # "")
    IN  [k \in 1..Len(idx) |-> "[" \o lab(idx[k])[1] \o "]"]

\* the output-label part of _node_to_string
NodeOutputLabels(g, n) ==
    LET bound == SelectSeq(g.outputs, LAMBDA e : e[2][1] = n)
        output_found == bound # <<>>
    IN  IF output_found
        THEN [k \in 1..Len(bound) |-> "[" \o bound[k][1] \o "]"]
        ELSE IF g.nodes[n].outputs # <<>>
        THEN << "[" \o get_output_label(g.nodes, n, 0) \o "]" >>
        ELSE IF g.outputs = <<>> /\ n = g.gnodes[Len(g.gnodes)]
        THEN << "[out]" >>
        ELSE <<>>

\* FilterGraphConverter._node_to_string
_node_to_string(g, n) ==
    LET input_labels  == NodeInputLabels(g, n)
        output_labels == NodeOutputLabels(g, n)
    IN  IF input_labels # <<>> \/ output_labels # <<>>
        THEN Concat(input_labels) \o node_to_filter_string(g.nodes[n])
             \o Concat(output_labels)
        ELSE ""

\* FilterGraphConverter.to_string: [raised, value]
to_string(g) ==
    LET sorted == _topological_sort(g) IN
    IF sorted.raised THEN [raised |-> TRUE, value |-> "Graph contains a cycle"]
    ELSE LET strs == [i \in 1..Len(sorted.order) |-> _node_to_string(g, sorted.order[i])]
         IN  [raised |-> FALSE,
              value  |-> Join(";", SelectSeq(strs, LAMBDA s : s # ""))]

----------------------------------------------------------------------------
(* core.py: FilterGraph *)

\* the per-node part of _validate_structure
StructureErrorsOf(g, n) ==
    LET node     == g.nodes[n]
        metadata == get_filter_metadata(node.filter_type)
        md       == IF metadata = <<>> THEN <<>> ELSE metadata[1]
        min_inputs == MetaGet(md, "min_inputs", 0)
    IN  (IF min_inputs > 0 /\ node.inputs = <<>> /\ ~IsExternalInput(g, n)
         THEN << "Node '" \o node.label
                 \o "' has no inputs and is not connected to an external input" >>
         ELSE <<>>)
        \o
        (IF ExceedsMax(md, Len(node.inputs))
         THEN << "Node '" \o node.label \o "' has " \o ToString(Len(node.inputs))
                 \o " inputs but max allowed is " \o ToString(md["max_inputs"]) >>
         ELSE <<>>)

\* mutant of _validate_structure: a cycle ends the structural checks
_validate_structure_cycle_only(g) ==
    IF _topological_sort(g).raised THEN << "Graph contains a cycle" >>
    ELSE Flatten([i \in 1..Len(g.gnodes) |-> StructureErrorsOf(g, g.gnodes[i])])

\* FilterGraph._validate_structure
_validate_structure(g) ==
    (IF _topological_sort(g).raised THEN << "Graph contains a cycle" >> ELSE <<>>)
    \o Flatten([i \in 1..Len(g.gnodes) |-> StructureErrorsOf(g, g.gnodes[i])])

\* mutant of validate: a graph without nodes is reported as an error
validate_requires_nodes(g) ==
    IF g.gnodes = <<>> THEN << "Graph has no nodes" >>
    ELSE Flatten([i \in 1..Len(g.gnodes) |-> node_validate(g.nodes[g.gnodes[i]])])
         \o _validate_structure(g)

\* FilterGraph.validate
validate(g) ==
    Flatten([i \in 1..Len(g.gnodes) |-> node_validate(g.nodes[g.gnodes[i]])])
    \o _validate_structure(g)

\* mutant of to_filter_string: only the first violation is reported
to_filter_string_first_error(g) ==
    IF g.gnodes = <<>>
    THEN [kind |-> "str", value |-> "", converted |-> FALSE]
    ELSE LET errors == validate(g) IN
         IF errors # <<>>
         THEN [kind |-> "raise", converted |-> FALSE,
               value |-> "Invalid filter graph: " \o errors[1]]
         ELSE LET r == to_string(g) IN
              [kind |-> IF r.raised THEN "raise" ELSE "str",
               value |-> r.value, converted |-> TRUE]

\* FilterGraph.to_filter_string: the outcome of the call.  kind is "str" (the
\* returned string) or "raise" (the ValueError's message); converted tells
\* whether FilterGraphConverter.to_string was called.
to_filter_string(g) ==
    IF g.gnodes = <<>>
    THEN [kind |-> "str", value |-> "", converted |-> FALSE]
    ELSE LET errors == validate(g) IN
         IF errors # <<>>
         THEN [kind |-> "raise", converted |-> FALSE,
               value |-> "Invalid filter graph: " \o Join("; ", errors)]
         ELSE LET r == to_string(g) IN
              [kind |-> IF r.raised THEN "raise" ELSE "str",
               value |-> r.value, converted |-> TRUE]

\* FilterGraph.create_node / connect / set_input / set_output as functions of
\* the graph value: the graph after the call
create_node(g, filter_type, label, params, suffix) ==
    [g EXCEPT !.nodes = Append(@, FilterNode(filter_type, label, params, suffix)),
              !.gnodes = Append(@, Len(g.nodes) + 1)]

connect(g, source, target, source_pad, target_pad) ==
    [g EXCEPT !.nodes = add_input(@, target, source, target_pad, source_pad)]

set_input(g, label, n, pad) ==
    [g EXCEPT !.inputs = DictSet(@, label, <<n, pad>>),
              !.nodes = set_input_label(@, n, pad, label)]

set_output(g, label, n, pad) ==
    [g EXCEPT !.outputs = DictSet(@, label, <<n, pad>>),
              !.nodes = set_output_label(@, n, pad, label)]

----------------------------------------------------------------------------
(* builders.py: FilterGraphBuilder *)

\* Optional arguments are <<>> (None) or <<v>>.  A float is given by its
\* repr: scale as a number is <<"num", repr>>, as a tuple <<"tuple", w, h>>;
\* rotation is an int of degrees; opacity is an int of tenths.
IntVal(n) == [num |-> TRUE, v |-> n]
StrVal(chars) == [num |-> FALSE, v |-> chars]
FloatVal(repr) == [num |-> TRUE, repr |-> repr]

\* repr(rotation * 3.14159 / 180) for the angles used
Radians(rotation) ==
    IF rotation = 0 THEN <<"0", ".", "0">>
    ELSE IF rotation = 180 THEN <<"3", ".", "1", "4", "1", "5", "9">>
    ELSE <<"1", ".", "5", "7", "0", "7", "9", "5">>     \* 90

\* repr(opacity) of tenths / 10
Tenths(opacity) ==
    IF opacity = 10 THEN <<"1", ".", "0">> ELSE <<"0", ".", ToString(opacity)>>

\* st is [g, cur, made]: the graph, current_node and the connections made.
\* create_node(filter_type, label, params); connect(current_node, node);
\* current_node = node
Stage(st, filter_type, label, params) ==
    LET g1 == create_node(st.g, filter_type, <<label>>, params, "")
        n  == Len(g1.nodes)
    IN  [g    |-> connect(g1, st.cur, n, 0, 0),
         cur  |-> n,
         made |-> st.made \cup {<<st.cur, 0, n, 0>>}]

\* mutant of create_logo_overlay: the rotate stage is chained before the
\* scale stage
create_logo_overlay_rotate_first(g, logo_path, position, scale, opacity, rotation) ==
    LET g0 == create_node(g, "movie", <<"logo_source">>,
                          << <<"filename", StrVal(logo_path)>> >>, "")
        s0 == [g |-> g0, cur |-> Len(g0.nodes), made |-> {}]
        s1 == IF rotation # <<>>
              THEN Stage(s0, "rotate", "logo_rotate",
                         << <<"angle", FloatVal(Radians(rotation[1]))>> >>)
              ELSE s0
        s2 == IF scale # <<>>
              THEN Stage(s1, "scale", "logo_scale",
                         IF scale[1] = "num"
                         THEN << <<"width", StrVal(<<"i", "w", "*">> \o scale[2])>>,
                                 <<"height", StrVal(<<"i", "h", "*">> \o scale[2])>> >>
                         ELSE << <<"width", scale[2]>>, <<"height", scale[3]>> >>)
              ELSE s1
        s3 == IF opacity < 10
              THEN Stage(s2, "colorchannelmixer", "logo_opacity",
                         << <<"aa", FloatVal(Tenths(opacity))>> >>)
              ELSE s2
        g4 == create_node(s3.g, "format", <<"main_format">>,
                          << <<"pix_fmt", StrVal(<<"y","u","v","a","4","2","0","p">>)>> >>, "")
        format_node == Len(g4.nodes)
        g5 == create_node(g4, "overlay", <<"logo_overlay">>,
                          << <<"x", position[1]>>, <<"y", position[2]>>,
                             <<"format", StrVal(<<"r", "g", "b">>)>>,
                             <<"shortest", IntVal(1)>> >>, "")
        overlay_node == Len(g5.nodes)
        g6 == connect(g5, format_node, overlay_node, 0, 0)
        g7 == connect(g6, s3.cur, overlay_node, 0, 1)
    IN  [g    |-> g7,
         ret  |-> <<format_node, overlay_node>>,
         made |-> s3.made \cup {<<format_node, 0, overlay_node, 0>>,
                                <<s3.cur, 0, overlay_node, 1>>}]

\* FilterGraphBuilder.create_logo_overlay: [g, ret, made], the graph after the
\* call, the returned pair of nodes and the connections made
create_logo_overlay(g, logo_path, position, scale, opacity, rotation) ==
    LET g0 == create_node(g, "movie", <<"logo_source">>,
                          << <<"filename", StrVal(logo_path)>> >>, "")
        s0 == [g |-> g0, cur |-> Len(g0.nodes), made |-> {}]
        s1 == IF scale # <<>>
              THEN Stage(s0, "scale", "logo_scale",
                         IF scale[1] = "num"
                         THEN << <<"width", StrVal(<<"i", "w", "*">> \o scale[2])>>,
                                 <<"height", StrVal(<<"i", "h", "*">> \o scale[2])>> >>
                         ELSE << <<"width", scale[2]>>, <<"height", scale[3]>> >>)
              ELSE s0
        s2 == IF rotation # <<>>
              THEN Stage(s1, "rotate", "logo_rotate",
                         << <<"angle", FloatVal(Radians(rotation[1]))>> >>)
              ELSE s1
        s3 == IF opacity < 10
              THEN Stage(s2, "colorchannelmixer", "logo_opacity",
                         << <<"aa", FloatVal(Tenths(opacity))>> >>)
              ELSE s2
        g4 == create_node(s3.g, "format", <<"main_format">>,
                          << <<"pix_fmt", StrVal(<<"y","u","v","a","4","2","0","p">>)>> >>, "")
        format_node == Len(g4.nodes)
        g5 == create_node(g4, "overlay", <<"logo_overlay">>,
                          << <<"x", position[1]>>, <<"y", position[2]>>,
                             <<"format", StrVal(<<"r", "g", "b">>)>>,
                             <<"shortest", IntVal(1)>> >>, "")
        overlay_node == Len(g5.nodes)
        g6 == connect(g5, format_node, overlay_node, 0, 0)
        g7 == connect(g6, s3.cur, overlay_node, 0, 1)
    IN  [g    |-> g7,
         ret  |-> <<format_node, overlay_node>>,
         made |-> s3.made \cup {<<format_node, 0, overlay_node, 0>>,
                                <<s3.cur, 0, overlay_node, 1>>}]

\* FilterGraphBuilder.create_text_overlay with the default position, size and
\* colors: [g, ret, made]
create_text_overlay(g, text, font_path, box, shadow) ==
    LET g1 == create_node(g, "format", <<"text_format">>,
                          << <<"pix_fmt", StrVal(<<"y","u","v","a","4","2","0","p">>)>> >>, "")
        format_node == Len(g1.nodes)
        params ==
            << <<"text", StrVal(text)>>, <<"fontsize", IntVal(24)>>,
               <<"fontcolor", StrVal(<<"w","h","i","t","e">>)>>,
               <<"x", IntVal(10)>>, <<"y", IntVal(10)>> >>
            \o (IF font_path # <<>> /\ font_path[1] # <<>>
                THEN << <<"fontfile", StrVal(font_path[1])>> >> ELSE <<>>)
            \o (IF box
                THEN << <<"box", IntVal(1)>>,
                        <<"boxcolor", StrVal(<<"b","l","a","c","k">>)>> >>
                ELSE <<>>)
            \o (IF shadow # <<>>
                THEN << <<"shadowx", IntVal(shadow[1])>>,
                        <<"shadowy", IntVal(shadow[2])>>,
                        <<"shadowcolor", StrVal(<<"b","l","a","c","k">>)>> >>
                ELSE <<>>)
        g2 == create_node(g1, "drawtext", <<"text_overlay">>, params, "")
        drawtext_node == Len(g2.nodes)
    IN  [g    |-> connect(g2, format_node, drawtext_node, 0, 0),
         ret  |-> <<format_node, drawtext_node>>,
         made |-> {<<format_node, 0, drawtext_node, 0>>}]

----------------------------------------------------------------------------
(* The state machine *)

\* the FilterGraph object as a value
Graph == [nodes |-> nodes, gnodes |-> gnodes, inputs |-> ginputs, outputs |-> goutputs]

Ids == 1..Len(nodes)

RECURSIVE SumLen(_)
SumLen(ss) == IF ss = <<>> THEN 0 ELSE Len(Head(ss)) + SumLen(Tail(ss))

\* number of add_input calls so far
NumInputs == SumLen([i \in Ids |-> nodes[i].inputs])

\* number of label overrides set so far
NumLabels == SumLen([i \in Ids |-> nodes[i].input_labels \o nodes[i].output_labels])

NumOps == Len(nodes) + NumInputs + NumLabels

Returned(kind, value) == [kind |-> kind, value |-> value, converted |-> FALSE]

EmptyGraph == [nodes |-> <<>>, gnodes |-> <<>>, inputs |-> <<>>, outputs |-> <<>>]

\* FilterGraph.__init__ with a FilterRegistry holding the built-in filters
InitGraph ==
    /\ nodes = <<>>
    /\ gnodes = <<>>
    /\ ginputs = <<>>
    /\ goutputs = <<>>
    /\ conns = {}
    /\ result = Returned("none", 0)
    /\ filters = BuiltinFilters

Init ==
    /\ InitGraph
    /\ hist = [on |-> FALSE]

\* the never-serialized graph of hist (the graph itself where none is kept)
Fresh == IF hist.on THEN hist.fresh ELSE Graph

\* the never-serialized graph has become g after the same mutating call as
\* the one made on the graph; phase: "never" serialized, serialized "once",
\* "mutated" after that, serialized "again" after the mutation
Mutated(g) ==
    hist' = IF hist.on
            THEN [hist EXCEPT !.fresh = g,
                              !.phase = IF @ = "once" THEN "mutated" ELSE @]
            ELSE hist

SerializedOnce ==
    hist' = IF hist.on
            THEN [hist EXCEPT !.phase = IF @ = "never" THEN "once"
                                        ELSE IF @ = "mutated" THEN "again" ELSE @]
            ELSE hist

\* FilterGraph.create_node (FilterNode.__init__ and add_node); returns the node
CreateNode(filter_type, label, params, suffix) ==
    /\ Len(nodes) < MaxNodes
    /\ nodes' = Append(nodes, FilterNode(filter_type, label, params, suffix))
    /\ gnodes' = Append(gnodes, Len(nodes) + 1)
    /\ result' = Returned("node", Len(nodes) + 1)
    /\ Mutated(create_node(Fresh, filter_type, label, params, suffix))
    /\ UNCHANGED <<ginputs, goutputs, conns, filters>>

\* FilterNode(filter_type, label, params): a node that is in no graph
NewNode(filter_type, label, params, suffix) ==
    /\ Len(nodes) < MaxNodes
    /\ nodes' = Append(nodes, FilterNode(filter_type, label, params, suffix))
    /\ result' = Returned("node", Len(nodes) + 1)
    /\ Mutated([Fresh EXCEPT !.nodes = Append(@, FilterNode(filter_type, label, params, suffix))])
    /\ UNCHANGED <<gnodes, ginputs, goutputs, conns, filters>>

\* FilterGraph.add_node; returns the node
AddNode(n) ==
    /\ gnodes' = Append(gnodes, n)
    /\ result' = Returned("node", n)
    /\ Mutated([Fresh EXCEPT !.gnodes = Append(@, n)])
    /\ UNCHANGED <<nodes, ginputs, goutputs, conns, filters>>

\* FilterNode.add_input called on target; returns the target node
AddInput(target, source, pad_index, source_pad) ==
    /\ nodes' = add_input(nodes, target, source, pad_index, source_pad)
    /\ conns' = IF source # 0
                THEN conns \cup {<<source, source_pad, target, pad_index>>}
                ELSE conns
    /\ result' = Returned("node", target)
    /\ Mutated([Fresh EXCEPT !.nodes = add_input(@, target, source, pad_index, source_pad)])
    /\ UNCHANGED <<gnodes, ginputs, goutputs, filters>>

\* FilterGraph.connect; returns the graph
Connect(source, target, source_pad, target_pad) ==
    /\ nodes' = add_input(nodes, target, source, target_pad, source_pad)
    /\ conns' = conns \cup {<<source, source_pad, target, target_pad>>}
    /\ result' = Returned("graph", 0)
    /\ Mutated(connect(Fresh, source, target, source_pad, target_pad))
    /\ UNCHANGED <<gnodes, ginputs, goutputs, filters>>

\* FilterNode.set_output_label; returns the node
SetOutputLabel(n, pad, label) ==
    /\ nodes' = set_output_label(nodes, n, pad, label)
    /\ result' = Returned("node", n)
    /\ Mutated([Fresh EXCEPT !.nodes = set_output_label(@, n, pad, label)])
    /\ UNCHANGED <<gnodes, ginputs, goutputs, conns, filters>>

\* FilterGraph.set_input; returns the graph
SetInput(label, n, pad) ==
    /\ ginputs' = DictSet(ginputs, label, <<n, pad>>)
    /\ nodes' = set_input_label(nodes, n, pad, label)
    /\ result' = Returned("graph", 0)
    /\ Mutated(set_input(Fresh, label, n, pad))
    /\ UNCHANGED <<gnodes, goutputs, conns, filters>>

\* FilterGraph.set_output; returns the graph
SetOutput(label, n, pad) ==
    /\ goutputs' = DictSet(goutputs, label, <<n, pad>>)
    /\ nodes' = set_output_label(nodes, n, pad, label)
    /\ result' = Returned("graph", 0)
    /\ Mutated(set_output(Fresh, label, n, pad))
    /\ UNCHANGED <<gnodes, ginputs, conns, filters>>

\* FilterGraph.validate; returns the list of errors
\* mutant of Validate: graph.nodes is left in the processing order computed
\* by the cycle check
Validate_sorting ==
    /\ result' = Returned("errors", validate(Graph))
    /\ gnodes' = LET sorted == _topological_sort(Graph)
                 IN  IF sorted.raised THEN gnodes ELSE sorted.order
    /\ UNCHANGED <<nodes, ginputs, goutputs, conns, filters, hist>>

Validate ==
    /\ result' = Returned("errors", validate(Graph))
    /\ UNCHANGED <<nodes, gnodes, ginputs, goutputs, conns, filters, hist>>

\* mutant of ToFilterString: a graph without bound outputs is left with its
\* last node bound as "out"
ToFilterString_binding ==
    /\ result' = to_filter_string(Graph)
    /\ goutputs' = IF goutputs = <<>> /\ gnodes # <<>>
                   THEN <<<<"out", <<gnodes[Len(gnodes)], 0>>>>>>
                   ELSE goutputs
    /\ SerializedOnce
    /\ UNCHANGED <<nodes, gnodes, ginputs, conns, filters>>

\* FilterGraph.to_filter_string; returns a string or raises ValueError
ToFilterString ==
    /\ result' = to_filter_string(Graph)
    /\ SerializedOnce
    /\ UNCHANGED <<nodes, gnodes, ginputs, goutputs, conns, filters>>

\* FilterGraphConverter.to_string(graph); returns the string or raises
\* ValueError
ConverterToString ==
    /\ result' = LET r == to_string(Graph)
                 IN  [kind |-> IF r.raised THEN "raise" ELSE "str",
                      value |-> r.value, converted |-> TRUE]
    /\ UNCHANGED <<nodes, gnodes, ginputs, goutputs, conns, filters, hist>>

\* FilterNode.to_filter_string on node n; returns the string
NodeToFilterString(n) ==
    /\ result' = Returned("str", node_to_filter_string(nodes[n]))
    /\ UNCHANGED <<nodes, gnodes, ginputs, goutputs, conns, filters, hist>>

\* a builder call whose outcome on the graph is b = [g, ret, made]; returns
\* the pair of nodes b.ret
Built(b) ==
    /\ nodes' = b.g.nodes
    /\ gnodes' = b.g.gnodes
    /\ ginputs' = b.g.inputs
    /\ goutputs' = b.g.outputs
    /\ conns' = conns \cup b.made
    /\ result' = Returned("pair", b.ret)
    /\ UNCHANGED filters

\* FilterGraphBuilder.create_logo_overlay(graph, ...)
CreateLogoOverlay(logo_path, position, scale, opacity, rotation) ==
    /\ Built(create_logo_overlay(Graph, logo_path, position, scale, opacity, rotation))
    /\ Mutated(create_logo_overlay(Fresh, logo_path, position, scale, opacity, rotation).g)

\* FilterGraphBuilder.create_text_overlay(graph, ...)
CreateTextOverlay(text, font_path, box, shadow) ==
    /\ Built(create_text_overlay(Graph, text, font_path, box, shadow))
    /\ Mutated(create_text_overlay(Fresh, text, font_path, box, shadow).g)

\* FilterNode.get_output_label on node n; returns the label
GetOutputLabel(n, pad) ==
    /\ result' = Returned("str", get_output_label(nodes, n, pad))
    /\ UNCHANGED <<nodes, gnodes, ginputs, goutputs, conns, filters, hist>>

\* FilterRegistry.register_filter on the graph's registry; returns None
RegisterFilter(filter_type, metadata) ==
    /\ filters' = register_filter(filters, filter_type, metadata)
    /\ result' = Returned("none", 0)
    /\ UNCHANGED <<nodes, gnodes, ginputs, goutputs, conns, hist>>

----------------------------------------------------------------------------
(* Inputs of the calls *)

\* explicit label given to the k-th node created
LabelFor(k) == "n" \o ToString(k)

Pads == {0, 1}

FormatParams == << <<"pix_fmt", StrVal(<<"y","u","v","a","4","2","0","p">>)>> >>
DrawtextParams == << <<"text", StrVal(<<"H","e","l","l","o">>)>>, <<"fontsize", IntVal(36)>> >>
MovieParamsA == << <<"filename", StrVal(<<"a",".","p","n","g">>)>> >>
MovieParamsB == << <<"filename", StrVal(<<"b",".","p","n","g">>)>> >>

ChainKinds == { <<"format", FormatParams>>, <<"drawtext", DrawtextParams>> }
OverlayKinds == { <<"movie", MovieParamsA>>, <<"movie", MovieParamsB>>, <<"overlay", <<>> >> }

\* one step of a client that builds a graph of nodes of the given kinds with
\* target pads used in increasing order, binds "0:v" / "out" (once each
\* unless rebind), validates and serializes
BuildStep(kinds, selfLoops, rebind) ==
    \/ /\ NumOps < MaxOps
       /\ \E k \in kinds : CreateNode(k[1], <<LabelFor(Len(nodes) + 1)>>, k[2], "")
    \/ /\ NumOps < MaxOps
       /\ \E s \in Ids, t \in Ids :
             /\ selfLoops \/ s # t
             /\ Connect(s, t, 0, Len(nodes[t].inputs))
    \/ /\ NumOps < MaxOps
       /\ rebind \/ ginputs = <<>>
       /\ \E n \in Ids : SetInput("0:v", n, 0)
    \/ /\ NumOps < MaxOps
       /\ rebind \/ goutputs = <<>>
       /\ \E n \in Ids : SetOutput("out", n, 0)
    \/ Validate
    \/ ToFilterString

\* format / drawtext chains
NextChain == BuildStep(ChainKinds, FALSE, FALSE)
SpecChain == Init /\ [][NextChain]_vars

\* movie sources into overlay nodes
NextOverlay == BuildStep(OverlayKinds, FALSE, FALSE)
SpecOverlay == Init /\ [][NextOverlay]_vars

\* arbitrary connection structure, self-connections included
NextCycle == BuildStep({<<"scale", <<>> >>}, TRUE, TRUE)
SpecCycle == Init /\ [][NextCycle]_vars

\* bare FilterNode objects wired with arbitrary pad indices
NextConn ==
    \/ CreateNode("scale", <<LabelFor(Len(nodes) + 1)>>, <<>>, "")
    \/ /\ NumInputs + NumLabels < MaxCalls
       /\ \E t \in Ids, s \in Ids \cup {0}, p \in Pads, sp \in Pads :
             AddInput(t, s, p, sp)
    \/ /\ NumInputs + NumLabels < MaxCalls
       /\ \E s \in Ids, t \in Ids, sp \in Pads, tp \in Pads :
             Connect(s, t, sp, tp)
    \/ /\ NumInputs + NumLabels < MaxCalls
       /\ \E n \in Ids, p \in Pads : SetOutputLabel(n, p, "lbl")
SpecConn == Init /\ [][NextConn]_vars

\* a second graph receives the same mutating calls and is never serialized
InitFresh ==
    /\ InitGraph
    /\ hist = [on |-> TRUE, fresh |-> EmptyGraph, phase |-> "never"]

FreshKinds == { <<"movie", MovieParamsA>>, <<"scale", <<>> >> }

\* FFmpegEffectMapper-like client: mutations and build_filter_chain calls
\* interleaved
NextFresh == BuildStep(FreshKinds, FALSE, FALSE)
SpecFresh == InitFresh /\ [][NextFresh]_vars

\* a format node without its required parameter, an overlay node and a node
\* of a type the registry does not know
MixedKinds == { <<"format", <<>> >>, <<"overlay", <<>> >>, <<"mystery", <<>> >> }

\* graphs with several independent violations, cycles included, validated
NextMixed ==
    \/ /\ NumOps < MaxOps
       /\ \E k \in MixedKinds : CreateNode(k[1], <<LabelFor(Len(nodes) + 1)>>, k[2], "")
    \/ /\ NumOps < MaxOps
       /\ \E s \in Ids, t \in Ids : Connect(s, t, 0, Len(nodes[t].inputs))
    \/ /\ NumOps < MaxOps
       /\ ginputs = <<>>
       /\ \E n \in Ids : SetInput("0:v", n, 0)
    \/ Validate
SpecMixed == Init /\ [][NextMixed]_vars

\* characters of the text values: a plain one and the five special ones
Alphabet == {"a", ":", ",", "[", "]", "\\"}

RECURSIVE Texts(_)
\* the strings over Alphabet of length at most k
Texts(k) ==
    IF k = 0 THEN {<<>>}
    ELSE Texts(k - 1) \cup {Append(t, c) : t \in {u \in Texts(k - 1) : Len(u) = k - 1},
                                          c \in Alphabet}

\* one drawtext node with a text parameter, rendered
NextEscape ==
    \/ /\ nodes = <<>>
       /\ \E t \in Texts(MaxTextLen) :
             CreateNode("drawtext", <<"d">>, << <<"text", StrVal(t)>> >>, "")
    \/ /\ nodes # <<>>
       /\ NodeToFilterString(1)
SpecEscape == Init /\ [][NextEscape]_vars

\* arguments of the builder calls
LogoPath == <<"l", ".", "p", "n", "g">>
DefaultPosition == <<IntVal(10), IntVal(10)>>
ScaleArgs == {<<>>, <<"num", <<"2">>>>, <<"tuple", StrVal(<<"1", "0", "0">>), StrVal(<<"5", "0">>)>>}
OpacityArgs == {10, 5}
RotationArgs == {<<>>, <<0>>, <<180>>}
FontArgs == {<<>>, <<<<"f", ".", "t", "t", "f">>>>}
ShadowArgs == {<<>>, <<2, 2>>}

\* uuid.uuid4().hex[:8] of the k-th FilterNode created: the random values
\* are taken not to repeat
SuffixFor(k) == "0000000" \o ToString(k)

\* number of builder calls made on the graph
NumBuilds ==
    Cardinality({n \in Ids : nodes[n].label \in {"logo_overlay", "text_overlay"}})

\* create_node calls without a label and FilterGraphBuilder calls
NextBuilder ==
    \/ CreateNode("scale", <<>>, <<>>, SuffixFor(Len(nodes) + 1))
    \/ /\ NumBuilds < MaxBuilds
       /\ \E scale \in ScaleArgs, opacity \in OpacityArgs, rotation \in RotationArgs :
             CreateLogoOverlay(LogoPath, DefaultPosition, scale, opacity, rotation)
    \/ /\ NumBuilds < MaxBuilds
       /\ \E font_path \in FontArgs, box \in BOOLEAN, shadow \in ShadowArgs :
             CreateTextOverlay(<<"h", "i">>, font_path, box, shadow)
SpecBuilder == Init /\ [][NextBuilder]_vars

\* filter types and metadata passed to register_filter; <<>> is the dict
\* without keys
RegTypes == {"custom", "scale"}
Metadatas ==
    { <<>>,
      [description |-> "d"],
      [min_inputs |-> 1],
      [max_inputs |-> 0, required_params |-> <<"p">>] }

\* registrations interleaved with the building and validation of a graph of
\* registered, re-registered and never registered types
NextRegistry ==
    \/ \E t \in RegTypes, md \in Metadatas : RegisterFilter(t, md)
    \/ /\ Len(nodes) < MaxRegNodes
       /\ \E t \in RegTypes \cup {"mystery"} :
             CreateNode(t, <<LabelFor(Len(nodes) + 1)>>, <<>>, "")
    \/ /\ NumInputs + 1 < MaxRegNodes
       /\ \E s \in Ids, t \in Ids : s # t /\ Connect(s, t, 0, Len(nodes[t].inputs))
    \/ Validate
    \/ ToFilterString
SpecRegistry == Init /\ [][NextRegistry]_vars

\* labels set by set_output_label
OverrideLabels == {"x", "y"}

\* one node whose output pads are labelled, relabelled and queried
NextLabels ==
    \/ /\ nodes = <<>>
       /\ CreateNode("split", <<LabelFor(1)>>, <<>>, "")
    \/ \E n \in Ids, p \in 0..MaxPad, l \in OverrideLabels : SetOutputLabel(n, p, l)
    \/ \E n \in Ids, p \in 0..MaxPad : GetOutputLabel(n, p)
SpecLabels == Init /\ [][NextLabels]_vars

\* nodes created in the graph or outside it, added by add_node (more than
\* once too), connected whether or not they are in the graph, and sorted
NextAddNode ==
    \/ /\ NumOps < MaxOps
       /\ CreateNode("scale", <<LabelFor(Len(nodes) + 1)>>, <<>>, "")
    \/ /\ NumOps < MaxOps
       /\ NewNode("scale", <<LabelFor(Len(nodes) + 1)>>, <<>>, "")
    \/ /\ Len(gnodes) < MaxNodes
       /\ \E n \in Ids : AddNode(n)
    \/ /\ NumOps < MaxOps
       /\ \E s \in Ids, t \in Ids : s # t /\ Connect(s, t, 0, Len(nodes[t].inputs))
    \/ /\ NumOps < MaxOps
       /\ ginputs = <<>>
       /\ \E i \in 1..Len(gnodes) : SetInput("0:v", gnodes[i], 0)
    \/ Validate
SpecAddNode == Init /\ [][NextAddNode]_vars

\* graphs of up to MaxDagEdges connections, parallel ones included, one
\* node bound as an external input
NextDag ==
    \/ CreateNode("scale", <<LabelFor(Len(nodes) + 1)>>, <<>>, "")
    \/ /\ NumInputs < MaxDagEdges
       /\ \E s \in Ids, t \in Ids :
             /\ s # t
             /\ Connect(s, t, 0, Len(nodes[t].inputs))
    \/ /\ ginputs = <<>>
       /\ \E n \in Ids : SetInput("0:v", n, 0)
    \/ Validate
SpecDag == Init /\ [][NextDag]_vars

\* movie sources and scale nodes connected from any source pad, bound as
\* external input and (rebinding included) as output on any pad, serialized
\* by FilterGraph.to_filter_string and by the converter directly
NextStages ==
    \/ /\ NumOps < MaxStageOps
       /\ \E k \in FreshKinds : CreateNode(k[1], <<LabelFor(Len(nodes) + 1)>>, k[2], "")
    \/ /\ NumOps < MaxStageOps
       /\ \E s \in Ids, t \in Ids, sp \in Pads :
             s # t /\ Connect(s, t, sp, Len(nodes[t].inputs))
    \/ /\ NumOps < MaxStageOps
       /\ ginputs = <<>>
       /\ \E n \in Ids : SetInput("0:v", n, 0)
    \/ /\ NumOps < MaxStageOps
       /\ \E n \in Ids, p \in Pads : SetOutput("out", n, p)
    \/ ToFilterString
    \/ ConverterToString
SpecStages == Init /\ [][NextStages]_vars

\* names bound by set_input / set_output
InputNames == {"0:v", "1:v"}
OutputNames == {"out"}

\* external bindings of any pad, rebinding included, on nodes connected in
\* creation order
NextBind ==
    \/ /\ Len(nodes) < MaxBindNodes
       /\ CreateNode("scale", <<LabelFor(Len(nodes) + 1)>>, <<>>, "")
    \/ /\ NumInputs + NumLabels < MaxBinds
       /\ \E s \in Ids, t \in Ids : s < t /\ Connect(s, t, 0, Len(nodes[t].inputs))
    \/ /\ NumInputs + NumLabels < MaxBinds
       /\ \E name \in InputNames, n \in Ids, p \in Pads : SetInput(name, n, p)
    \/ /\ NumInputs + NumLabels < MaxBinds
       /\ \E name \in OutputNames, n \in Ids, p \in Pads : SetOutput(name, n, p)
SpecBind == Init /\ [][NextBind]_vars

----------------------------------------------------------------------------
(* Helpers of the properties *)

Range(seq) == {seq[i] : i \in 1..Len(seq)}

Last(seq) == seq[Len(seq)]

\* the connections made, as a relation on nodes
Succ(a) == {c[3] : c \in {x \in conns : x[1] = a}}

RECURSIVE ReachFrom(_, _)
ReachFrom(S, k) ==
    IF k = 0 THEN S ELSE ReachFrom(S \cup UNION {Succ(x) : x \in S}, k - 1)

\* some node reaches itself along one or more connections
HasCycle == \E n \in Ids : n \in ReachFrom(Succ(n), Len(nodes))

\* the most recent call was to_filter_string / validate, on the current graph
Serialized == result.kind \in {"str", "raise"}
Validated == result.kind = "errors"

\* registered minimum number of inputs of node n's type
MinInputsOf(n) ==
    LET metadata == get_filter_metadata(nodes[n].filter_type)
    IN  IF metadata = <<>> THEN 0 ELSE MetaGet(metadata[1], "min_inputs", 0)

TooFewMsg(type, min, got) ==
    "Filter '" \o type \o "' requires at least " \o ToString(min)
    \o " inputs, got " \o ToString(got)

NoInputsMsg(label) ==
    "Node '" \o label \o "' has no inputs and is not connected to an external input"

----------------------------------------------------------------------------
(* C1 *)

C1_Scenario(f, d) ==
    /\ Len(nodes) = 2
    /\ nodes[f].filter_type = "format" /\ nodes[f].params = FormatParams
    /\ nodes[d].filter_type = "drawtext" /\ nodes[d].params = DrawtextParams
    /\ conns = {<<f, 0, d, 0>>}
    /\ nodes[f].inputs = <<>> /\ nodes[d].inputs = << <<f, 0>> >>
    /\ ginputs = << <<"0:v", <<f, 0>> >> >>
    /\ goutputs = << <<"out", <<d, 0>> >> >>

C1_Expected(L) ==
    "[0:v]format=pix_fmt=yuva420p[" \o L \o "];[" \o L
    \o "]drawtext=text=Hello:fontsize=36[out]"

\* C1: the format node bound as external input "0:v" and connected to the
\* drawtext node bound as external output "out" is serialized by
\* to_filter_string() to
\* "[0:v]format=pix_fmt=yuva420p[L];[L]drawtext=text=Hello:fontsize=36[out]",
\* L being the format node's label.
C1_EndToEnd ==
    \A f \in Ids, d \in Ids :
        (C1_Scenario(f, d) /\ Serialized)
        => (result.kind = "str" /\ result.value = C1_Expected(nodes[f].label))

----------------------------------------------------------------------------
(* C2 *)

\* C2: whenever the connections of the graph contain a directed cycle (a
\* self-connection included), the list returned by validate() is non-empty
\* and contains "Graph contains a cycle", and to_filter_string() raises.
C2_CycleDetected ==
    HasCycle =>
        /\ Validated => "Graph contains a cycle" \in Range(result.value)
        /\ Serialized => result.kind = "raise"

\* a cycle of three distinct nodes on which to_filter_string() was called
C2_Witness ==
    /\ \E a \in Ids, b \in Ids, c \in Ids :
          /\ Cardinality({a, b, c}) = 3
          /\ b \in Succ(a) /\ c \in Succ(b) /\ a \in Succ(c)
    /\ result.kind = "raise"

----------------------------------------------------------------------------
(* C3 *)

\* C3: on a non-empty graph, if validate() returns a non-empty list then
\* to_filter_string() raises one error whose message is
\* "Invalid filter graph: " followed by all the violations joined by "; ",
\* without calling the converter; if validate() returns the empty list it
\* returns the converter's string.
C3_Refusal ==
    (Serialized /\ gnodes # <<>>) =>
        LET errors == validate(Graph) IN
        IF errors # <<>>
        THEN /\ result.kind = "raise"
             /\ ~result.converted
             /\ result.value = "Invalid filter graph: " \o Join("; ", errors)
        ELSE /\ result.kind = "str"
             /\ result.converted
             /\ result.value = to_string(Graph).value

\* to_filter_string() raised on a graph with three violations
C3_Witness ==
    /\ result.kind = "raise"
    /\ Len(validate(Graph)) = 3

----------------------------------------------------------------------------
(* C4 *)

\* C4: for every connection made from (A, padA) to (B, padB), A.outputs
\* contains (B, padB) and B.inputs[padB] equals (A, padA).
C4_TwoSided ==
    \A c \in conns :
        LET A == c[1]  padA == c[2]  B == c[3]  padB == c[4] IN
        /\ <<B, padB>> \in Range(nodes[A].outputs)
        /\ padB < Len(nodes[B].inputs)
        /\ nodes[B].inputs[padB + 1] = <<A, padA>>

----------------------------------------------------------------------------
(* C5 *)

\* C5: for every connection connect(A, B, source_pad = s, target_pad = t)
\* with no input-label override on B, B.get_input_label(t) equals
\* A.get_output_label(s).
C5_RoundTripLabel ==
    \A c \in conns :
        LET A == c[1]  s == c[2]  B == c[3]  t == c[4] IN
        nodes[B].input_labels = <<>>
        => get_input_label(nodes, B, t) = <<get_output_label(nodes, A, s)>>

----------------------------------------------------------------------------
(* C6 *)

C6_Scenario(a, b, o) ==
    /\ Len(nodes) = 3 /\ Cardinality({a, b, o}) = 3
    /\ nodes[a].filter_type = "movie" /\ nodes[b].filter_type = "movie"
    /\ nodes[o].filter_type = "overlay"
    /\ conns = {<<a, 0, o, 0>>, <<b, 0, o, 1>>}
    /\ nodes[o].inputs = << <<a, 0>>, <<b, 0>> >>
    /\ nodes[a].inputs = <<>> /\ nodes[b].inputs = <<>>
    /\ ginputs = <<>>
    /\ goutputs = << <<"out", <<o, 0>> >> >>

C6_Source(n) ==
    "movie=filename=" \o Concat(nodes[n].params[1][2].v) \o "[" \o nodes[n].label \o "]"

C6_Overlay(a, b) ==
    "[" \o nodes[a].label \o "][" \o nodes[b].label \o "]overlay[out]"

----------------------------------------------------------------------------
(* C7 *)

\* nodes of a registered type with min_inputs = 2
NeedsTwo == {n \in Ids : MinInputsOf(n) = 2}

MaxInputsOf(n) == get_filter_metadata(nodes[n].filter_type)[1]["max_inputs"]

\* C7: a node of a registered type with min_inputs = 2 that has exactly one
\* connected input yields the validation error naming the required count 2
\* and the actual count 1; with two inputs connected its validation yields
\* no minimum-inputs error (and validate() of a graph all of whose such
\* nodes have two inputs contains none); with more inputs than max_inputs
\* it is flagged by validate().
C7_Arity ==
    /\ \A n \in NeedsTwo :
        LET type == nodes[n].filter_type
            got  == Len(nodes[n].inputs)
        IN  /\ (Validated /\ got = 1) => TooFewMsg(type, 2, 1) \in Range(result.value)
            /\ got >= 2 =>
                  \A k \in 0..MaxOps : TooFewMsg(type, 2, k) \notin Range(node_validate(nodes[n]))
            /\ (Validated /\ got > MaxInputsOf(n)) =>
                  /\ ( "Filter '" \o type \o "' accepts at most "
                       \o ToString(MaxInputsOf(n)) \o " inputs, got " \o ToString(got) )
                     \in Range(result.value)
                  /\ ( "Node '" \o nodes[n].label \o "' has " \o ToString(got)
                       \o " inputs but max allowed is " \o ToString(MaxInputsOf(n)) )
                     \in Range(result.value)
    /\ (Validated /\ \A n \in NeedsTwo : Len(nodes[n].inputs) >= 2) =>
          \A n \in NeedsTwo, k \in 0..MaxOps :
              TooFewMsg(nodes[n].filter_type, 2, k) \notin Range(result.value)

\* validate() was called on an overlay node with three connected inputs
C7_Witness ==
    /\ Validated
    /\ \E n \in NeedsTwo : Len(nodes[n].inputs) = 3

----------------------------------------------------------------------------
(* C8 *)

\* C8: validate() reports no missing-input error for a node whose type has
\* min_inputs = 1 when the node has a connected input or is bound as an
\* external input by set_input; when it has neither, validate() reports
\* "Node '<label>' has no inputs and is not connected to an external input".
C8_InputSatisfied ==
    Validated =>
        /\ (\A n \in Ids : MinInputsOf(n) = 1 =>
                (nodes[n].inputs # <<>> \/ IsExternalInput(Graph, n)))
            => \A n \in Ids :
                  /\ TooFewMsg(nodes[n].filter_type, 1, 0) \notin Range(result.value)
                  /\ NoInputsMsg(nodes[n].label) \notin Range(result.value)
        /\ \A n \in Ids :
              (MinInputsOf(n) = 1 /\ nodes[n].inputs = <<>> /\ ~IsExternalInput(Graph, n))
              => NoInputsMsg(nodes[n].label) \in Range(result.value)

----------------------------------------------------------------------------
(* C9 *)

\* what one add_input(source, pad_index, source_pad) call on target does
C9_Effect(target, source, pad_index, source_pad) ==
    /\ result'.kind = "node" /\ result'.value = target
    /\ Len(nodes') = Len(nodes)
    /\ \A n \in Ids :
          /\ nodes'[n].inputs =
                IF n = target
                THEN Append(nodes[n].inputs,
                            IF source # 0 THEN <<source, source_pad>> ELSE <<0, pad_index>>)
                ELSE nodes[n].inputs
          /\ nodes'[n].outputs =
                IF source # 0 /\ n = source
                THEN Append(nodes[n].outputs, <<target, pad_index>>)
                ELSE nodes[n].outputs
          /\ n \notin {target, source} => nodes'[n] = nodes[n]

----------------------------------------------------------------------------
(* C10 *)

\* C10: after target.add_input(source, pad_index = p, source_pad = s) the
\* entry added to target.inputs is (source, p) and the entry added to
\* source.outputs is (target, s).
C10_AddInputPerTests ==
    [][ \A t \in Ids, src \in Ids, p \in Pads, s \in Pads :
            AddInput(t, src, p, s) =>
                /\ Last(nodes'[t].inputs) = <<src, p>>
                /\ Last(nodes'[src].outputs) = <<t, s>> ]_vars

----------------------------------------------------------------------------
(* C11 *)

\* no node's inputs / outputs list differs between the two states of a step
C11_ListsKept ==
    /\ Len(nodes') = Len(nodes)
    /\ \A m \in Ids : /\ nodes'[m].inputs = nodes[m].inputs
                       /\ nodes'[m].outputs = nodes[m].outputs

\* C11: set_input(name, node, pad) records graph.inputs[name] = (node, pad)
\* and makes node.get_input_label(pad) return name; set_output(name, node,
\* pad) records graph.outputs[name] = (node, pad) and makes
\* node.get_output_label(pad) return name; each returns the graph and changes
\* no node's inputs or outputs list.
C11_ExternalBinding ==
    [][ /\ \A name \in InputNames, n \in Ids, p \in Pads :
              SetInput(name, n, p) =>
                  /\ name \in Keys(ginputs') /\ DictGet(ginputs', name) = <<n, p>>
                  /\ get_input_label(nodes', n, p) = <<name>>
                  /\ result'.kind = "graph"
                  /\ C11_ListsKept
        /\ \A name \in OutputNames, n \in Ids, p \in Pads :
              SetOutput(name, n, p) =>
                  /\ name \in Keys(goutputs') /\ DictGet(goutputs', name) = <<n, p>>
                  /\ get_output_label(nodes', n, p) = name
                  /\ result'.kind = "graph"
                  /\ C11_ListsKept ]_vars

\* node 2, which has a connected input, is bound as the external input
\* "0:v" on pad 0 and as the output "out" on pad 1
C11_Witness ==
    /\ Len(nodes) >= 2
    /\ nodes[2].inputs = << <<1, 0>> >>
    /\ ginputs = << <<"0:v", <<2, 0>> >> >>
    /\ goutputs = << <<"out", <<2, 1>> >> >>
    /\ result.kind = "graph"

----------------------------------------------------------------------------
(* C12 *)

\* C12: to_filter_string() may be called repeatedly and interleaved with
\* create_node, connect, set_input and set_output: after a serialization
\* every one of these calls is still accepted, and the outcome of each
\* to_filter_string() call (string or error) is the outcome the same call has
\* on a graph built by the same mutating calls and never serialized before.
C12_NoTerminalState ==
    hist.on =>
        /\ Serialized => result = to_filter_string(hist.fresh)
        /\ hist.phase # "never" =>
              /\ Len(nodes) < MaxNodes =>
                    ENABLED CreateNode("scale", <<LabelFor(Len(nodes) + 1)>>, <<>>, "")
              /\ \A s \in Ids, t \in Ids :
                    /\ ENABLED Connect(s, t, 0, Len(nodes[t].inputs))
                    /\ ENABLED SetInput("0:v", t, 0)
                    /\ ENABLED SetOutput("out", t, 0)

\* a graph serialized, then extended, then serialized again to a string
C12_Witness ==
    /\ hist.on /\ hist.phase = "again"
    /\ result.kind = "str" /\ result.value # ""
    /\ Len(nodes) >= 2 /\ conns # {}

----------------------------------------------------------------------------
(* C13 *)

TooManyMsg(type, max, got) ==
    "Filter '" \o type \o "' accepts at most " \o ToString(max)
    \o " inputs, got " \o ToString(got)

MaxAllowedMsg(label, got, max) ==
    "Node '" \o label \o "' has " \o ToString(got)
    \o " inputs but max allowed is " \o ToString(max)

\* arity of the registered types of MixedKinds: <<min_inputs, max_inputs>>
C13_Arity(type) == IF type = "format" THEN <<1, 1>> ELSE <<2, 2>>

\* the node-level errors expected of node n
C13_NodeErrors(n) ==
    LET type == nodes[n].filter_type
        got  == Len(nodes[n].inputs)
    IN  IF type = "mystery" THEN << "Unknown filter type: mystery" >>
        ELSE (IF type = "format" /\ "pix_fmt" \notin Keys(nodes[n].params)
              THEN << "Missing required parameter 'pix_fmt' for filter 'format'" >>
              ELSE <<>>)
             \o (IF got < C13_Arity(type)[1]
                 THEN << TooFewMsg(type, C13_Arity(type)[1], got) >> ELSE <<>>)
             \o (IF got > C13_Arity(type)[2]
                 THEN << TooManyMsg(type, C13_Arity(type)[2], got) >> ELSE <<>>)

\* the structural errors expected of node n
C13_StructErrors(n) ==
    LET type == nodes[n].filter_type
        got  == Len(nodes[n].inputs)
    IN  IF type = "mystery" THEN <<>>
        ELSE (IF got = 0 /\ \A i \in 1..Len(ginputs) : ginputs[i][2][1] # n
              THEN << NoInputsMsg(nodes[n].label) >> ELSE <<>>)
             \o (IF got > C13_Arity(type)[2]
                 THEN << MaxAllowedMsg(nodes[n].label, got, C13_Arity(type)[2]) >>
                 ELSE <<>>)

\* C13: validate() never raises, cyclic graphs and unknown filter types
\* included: it returns the list made of every node's node-level errors, in
\* graph.nodes order, followed by the structural errors ("Graph contains a
\* cycle" when the connections form a cycle, then the per-node structural
\* errors), so that independent violations are all reported by one call.
C13_ExhaustiveValidation ==
    Validated =>
        result.value =
            Flatten([i \in 1..Len(gnodes) |-> C13_NodeErrors(gnodes[i])])
            \o (IF HasCycle THEN << "Graph contains a cycle" >> ELSE <<>>)
            \o Flatten([i \in 1..Len(gnodes) |-> C13_StructErrors(gnodes[i])])

\* one validate() call on a graph with a cycle, a missing required
\* parameter, an arity violation and an unknown filter type
C13_Witness ==
    /\ Validated
    /\ HasCycle
    /\ "Graph contains a cycle" \in Range(result.value)
    /\ "Missing required parameter 'pix_fmt' for filter 'format'" \in Range(result.value)
    /\ TooFewMsg("overlay", 2, 1) \in Range(result.value)
    /\ "Unknown filter type: mystery" \in Range(result.value)
    /\ \E n \in Ids : NoInputsMsg(nodes[n].label) \in Range(result.value)

----------------------------------------------------------------------------
(* C14 *)

\* the escaped form of one character
C14_Esc(c) ==
    IF c = "\\" THEN <<"\\", "\\">>
    ELSE IF c \in {":", ",", "[", "]"} THEN <<"\\", c>>
    ELSE <<c>>

RECURSIVE C14_Unescape(_)
\* reverses the escapes: a backslash stands for the character after it
C14_Unescape(s) ==
    IF s = <<>> THEN <<>>
    ELSE IF Head(s) = "\\" /\ Len(s) >= 2
         THEN <<s[2]>> \o C14_Unescape(SubSeq(s, 3, Len(s)))
         ELSE <<Head(s)>> \o C14_Unescape(Tail(s))

\* C14: a string value without ':', ',', '[', ']' or backslash is rendered
\* bare and unchanged; any other is rendered in single quotes with every
\* backslash doubled and each of ':', ',', '[', ']' preceded by one backslash,
\* so that stripping the quotes and reversing the escapes gives the original.
C14_Escaping ==
    (nodes # <<>> /\ result.kind = "str") =>
        LET v == nodes[1].params[1][2].v
            e == EscapedChars(v)
        IN  /\ result.value = "drawtext=text=" \o Concat(e)
            /\ IF \A i \in 1..Len(v) : v[i] \notin {":", ",", "[", "]", "\\"}
               THEN e = v
               ELSE /\ e = <<"'">> \o Flatten([i \in 1..Len(v) |-> C14_Esc(v[i])]) \o <<"'">>
                    /\ C14_Unescape(SubSeq(e, 2, Len(e) - 1)) = v

\* the value a:\ has been rendered, quoted and escaped
C14_Witness ==
    /\ nodes # <<>> /\ result.kind = "str"
    /\ nodes[1].params[1][2].v = <<"a", ":", "\\">>
    /\ result.value = "drawtext=text='a\\:\\\\'"

----------------------------------------------------------------------------
(* C15 *)

\* C15: after any sequence of create_node calls without explicit labels and
\* of FilterGraphBuilder calls (create_logo_overlay, create_text_overlay, the
\* same builder possibly called more than once) the labels of the nodes of
\* graph.nodes are pairwise distinct.
C15_LabelsDistinct ==
    \A i \in 1..Len(gnodes), j \in 1..Len(gnodes) :
        i # j => nodes[gnodes[i]].label # nodes[gnodes[j]].label

----------------------------------------------------------------------------
(* C16 *)

\* the node-level errors of node n under the catalog entry md, absent keys
\* taking their defaults
C16_KnownErrors(n, md) ==
    LET type     == nodes[n].filter_type
        got      == Len(nodes[n].inputs)
        required == IF "required_params" \in DOMAIN md THEN md["required_params"] ELSE <<>>
        min      == IF "min_inputs" \in DOMAIN md THEN md["min_inputs"] ELSE 0
        missing  == SelectSeq(required, LAMBDA q : q \notin Keys(nodes[n].params))
    IN  [i \in 1..Len(missing) |->
            "Missing required parameter '" \o missing[i] \o "' for filter '" \o type \o "'"]
        \o (IF got < min THEN << TooFewMsg(type, min, got) >> ELSE <<>>)
        \o (IF "max_inputs" \in DOMAIN md /\ got > md["max_inputs"]
            THEN << TooManyMsg(type, md["max_inputs"], got) >> ELSE <<>>)

C16_NodeErrors(n) ==
    LET type == nodes[n].filter_type
        at   == {i \in 1..Len(filters) : filters[i][1] = type}
    IN  IF at = {} THEN << "Unknown filter type: " \o type >>
        ELSE C16_KnownErrors(n, filters[CHOOSE i \in at : TRUE][2])

\* C16: a type registered by register_filter, whatever its metadata (the
\* mapping without keys included), is from then on validated as a known type
\* against the latest metadata registered, absent keys taking the defaults
\* min_inputs 0, max_inputs unbounded, required_params empty; only a type
\* without a catalog entry gets the single error "Unknown filter type: <type>".
C16_Registration ==
    Validated =>
        LET expected == Flatten([i \in 1..Len(gnodes) |-> C16_NodeErrors(gnodes[i])])
        IN  /\ Len(result.value) >= Len(expected)
            /\ SubSeq(result.value, 1, Len(expected)) = expected

----------------------------------------------------------------------------
(* C17 *)

\* C17: whatever the registry contains, a graph with zero nodes returns ""
\* from every to_filter_string() call without raising, and no errors from
\* validate().
C17_EmptyGraph ==
    gnodes = <<>> =>
        /\ Serialized => result.kind = "str" /\ result.value = ""
        /\ Validated => result.value = <<>>

\* to_filter_string() has returned on a graph without nodes, after
\* registrations that changed the catalog
C17_Witness ==
    /\ gnodes = <<>>
    /\ Serialized
    /\ "custom" \in Keys(filters)
    /\ \E i \in 1..Len(filters) : filters[i][1] = "scale" /\ filters[i][2] = <<>>

----------------------------------------------------------------------------
(* C18 *)

\* C18: get_output_label(p) always returns a string: the label of the most
\* recent set_output_label(p, ...) call if there was one, otherwise the
\* node's label for p = 0 and "<label>_out<p>" for p > 0; set_output_label on
\* one pad leaves the label returned for every other pad as it was.
C18_OutputLabel ==
    [][ /\ \A n \in Ids, p \in 0..MaxPad, l \in OverrideLabels :
              (result'.kind = "node" /\ SetOutputLabel(n, p, l)) =>
                  /\ get_output_label(nodes', n, p) = l
                  /\ \A q \in (0..MaxPad) \ {p} :
                        get_output_label(nodes', n, q) = get_output_label(nodes, n, q)
        /\ \A n \in Ids, p \in 0..MaxPad :
              (result'.kind = "str" /\ GetOutputLabel(n, p)) =>
                  /\ result'.value \in STRING
                  /\ (\A i \in 1..Len(nodes[n].output_labels) :
                          nodes[n].output_labels[i][1] # p)
                      => result'.value = IF p = 0 THEN nodes[n].label
                                         ELSE nodes[n].label \o "_out" \o ToString(p)
                  /\ \A i \in 1..Len(nodes[n].output_labels) :
                          nodes[n].output_labels[i][1] = p
                          => result'.value = nodes[n].output_labels[i][2] ]_<<result.kind, vars>>

\* pads 0 and 1 carry overrides, pad 1 relabelled after pad 0 was set, and
\* the query of pad 2 returned the default
C18_Witness ==
    /\ nodes # <<>>
    /\ nodes[1].output_labels = << <<1, "y">>, <<0, "x">> >>
    /\ result.kind = "str" /\ result.value = "n1_out2"

----------------------------------------------------------------------------
(* C19 *)

\* the stages of the logo chain for the given arguments
C19_Stages(scale, opacity, rotation) ==
    <<"movie">>
    \o (IF scale # <<>> THEN <<"scale">> ELSE <<>>)
    \o (IF rotation # <<>> THEN <<"rotate">> ELSE <<>>)
    \o (IF opacity < 10 THEN <<"colorchannelmixer">> ELSE <<>>)

\* what one create_logo_overlay call does to a graph of `base` nodes
C19_Effect(scale, opacity, rotation) ==
    LET base   == Len(nodes)
        stages == C19_Stages(scale, opacity, rotation)
        k      == Len(stages)
        fmt    == base + k + 1
        ov     == base + k + 2
    IN  /\ Len(nodes') = ov
        /\ gnodes' = gnodes \o [i \in 1..(k + 2) |-> base + i]
        /\ \A n \in Ids : nodes'[n] = nodes[n]
        /\ \A i \in 1..k :
              /\ nodes'[base + i].filter_type = stages[i]
              /\ nodes'[base + i].inputs =
                    IF i = 1 THEN <<>> ELSE << <<base + i - 1, 0>> >>
        /\ nodes'[fmt].filter_type = "format" /\ nodes'[fmt].inputs = <<>>
        /\ nodes'[ov].filter_type = "overlay"
        /\ nodes'[ov].inputs = << <<fmt, 0>>, <<base + k, 0>> >>
        /\ result'.kind = "pair" /\ result'.value = <<fmt, ov>>

\* C19: for every combination of scale given or not, rotation given or not
\* and opacity below 1.0 or not, create_logo_overlay adds exactly the stages
\* asked for, chained movie -> scale -> rotate -> colorchannelmixer, connects
\* the main-video format node as the overlay's first input and the end of the
\* logo chain as its second (exactly two inputs), and returns the pair
\* (format node, overlay node).
C19_BuilderStages ==
    [][ \A scale \in ScaleArgs, opacity \in OpacityArgs, rotation \in RotationArgs :
            CreateLogoOverlay(LogoPath, DefaultPosition, scale, opacity, rotation)
            => C19_Effect(scale, opacity, rotation) ]_<<result.kind, vars>>

\* create_logo_overlay called with scale, rotation and opacity on a graph
\* that has a node already
C19_Witness ==
    /\ Len(nodes) = 7
    /\ [i \in 1..7 |-> nodes[i].filter_type] =
          <<"scale", "movie", "scale", "rotate", "colorchannelmixer", "format", "overlay">>
    /\ nodes[7].inputs = << <<6, 0>>, <<5, 0>> >>
    /\ result.kind = "pair" /\ result.value = <<6, 7>>

----------------------------------------------------------------------------
(* C20 *)

\* position of node n in the sequence order
C20_Pos(order, n) == CHOOSE i \in 1..Len(order) : order[i] = n

\* C20: when the connections made form no directed cycle, whatever the order
\* in which the nodes were created and connected and whichever nodes are
\* bound as external inputs, _topological_sort returns an order in which A
\* comes before B for every connection A -> B.
C20_TopologicalOrder ==
    ~HasCycle =>
        LET sorted == _topological_sort(Graph)
        IN  /\ ~sorted.raised
            /\ \A c \in conns :
                  /\ c[1] \in Range(sorted.order) /\ c[3] \in Range(sorted.order)
                  /\ C20_Pos(sorted.order, c[1]) < C20_Pos(sorted.order, c[3])

\* validate() has sorted a graph in which the node created last feeds the
\* node created first, which feeds the second, itself bound as an external
\* input
C20_Witness ==
    /\ Validated
    /\ ~HasCycle
    /\ {<<3, 0, 1, 0>>, <<1, 0, 2, 0>>} \subseteq conns
    /\ IsExternalInput(Graph, 2)
    /\ _topological_sort(Graph).order = <<3, 1, 2>>

----------------------------------------------------------------------------
(* C21 *)

\* number of occurrences of x in the sequence seq
Count(seq, x) == Cardinality({i \in 1..Len(seq) : seq[i] = x})

\* C21: when the connections form no cycle, the order returned by
\* _topological_sort contains every node of graph.nodes exactly once
\* (disconnected nodes and nodes joined by parallel connections included)
\* and no node that is not in graph.nodes.
C21_Permutation ==
    ~HasCycle =>
        LET sorted == _topological_sort(Graph)
        IN  /\ ~sorted.raised
            /\ \A n \in Range(gnodes) : Count(sorted.order, n) = 1
            /\ \A n \in Range(sorted.order) : n \in Range(gnodes)

----------------------------------------------------------------------------
(* C22 *)

\* C22: validate() reports no "Graph contains a cycle" error for a graph
\* whose connections form no directed cycle, also when a node with connected
\* inputs is bound as an external input (and so starts a traversal), when
\* two paths meet again in a node (a diamond) and when two nodes are joined
\* by parallel connections.
C22_NoFalseCycle ==
    (Validated /\ ~HasCycle) => "Graph contains a cycle" \notin Range(result.value)

\* validate() has run on the graph 1 => 3 (two parallel connections),
\* 3 -> 2, 1 -> 2, in which two paths from node 1 meet again in node 2 and
\* node 3, which has connected inputs, is bound as an external input
C22_Witness ==
    /\ Validated
    /\ {<<c[1], c[3]>> : c \in conns} = {<<1, 3>>, <<3, 2>>, <<1, 2>>}
    /\ nodes[3].inputs = << <<1, 0>>, <<1, 0>> >>
    /\ IsExternalInput(Graph, 3)
    /\ "Graph contains a cycle" \notin Range(result.value)

----------------------------------------------------------------------------
(* C23 *)

\* a string has been returned by the converter, called directly or by
\* to_filter_string(), which calls it when validate() reports no error
StringReturned == result.kind = "str" /\ result.converted

\* the nodes whose stages make up the returned string, in the order of the
\* stages: a node without any label yields no stage
Stages ==
    SelectSeq(_topological_sort(Graph).order,
              LAMBDA n : NodeInputLabels(Graph, n) # <<>> \/ NodeOutputLabels(Graph, n) # <<>>)

\* the returned string is made of the stages of the nodes of Stages, each
\* with its input labels before and its output labels after the filter
StagesReturned ==
    result.value =
        Join(";", [k \in 1..Len(Stages) |->
                      Concat(NodeInputLabels(Graph, Stages[k]))
                      \o node_to_filter_string(nodes[Stages[k]])
                      \o Concat(NodeOutputLabels(Graph, Stages[k]))])

\* C23: in every string returned by to_filter_string(), whatever source and
\* target pads the connections use, every input label a stage references is
\* the name of an external input bound with set_input or is declared as an
\* output label of an earlier stage.
C23_DeclaredBeforeUse ==
    (StringReturned /\ validate(Graph) = <<>>) =>
        /\ StagesReturned
        /\ \A k \in 1..Len(Stages) :
              \A l \in Range(NodeInputLabels(Graph, Stages[k])) :
                 \/ \E name \in Keys(ginputs) : l = "[" \o name \o "]"
                 \/ \E j \in 1..(k - 1) : l \in Range(NodeOutputLabels(Graph, Stages[j]))

----------------------------------------------------------------------------
(* C24 *)

\* C24: with distinct node labels and external names that differ from every
\* node label, in every string returned after any sequence of create_node,
\* connect, set_input and set_output calls (set_output possibly called more
\* than once with the same name) no label occurs as an output label of the
\* stages more than once.
C24_DeclaredOnce ==
    (StringReturned /\ validate(Graph) = <<>>) =>
        /\ StagesReturned
        /\ \A j \in 1..Len(Stages), k \in 1..Len(Stages) :
              \A a \in 1..Len(NodeOutputLabels(Graph, Stages[j])),
                 b \in 1..Len(NodeOutputLabels(Graph, Stages[k])) :
                 NodeOutputLabels(Graph, Stages[j])[a] = NodeOutputLabels(Graph, Stages[k])[b]
                     => (j = k /\ a = b)

----------------------------------------------------------------------------
(* C25 *)

\* the nodes of the graph without outgoing connections
Terminals == {n \in Range(gnodes) : nodes[n].outputs = <<>>}

\* C25: when no external output is bound and one node of the graph has no
\* outgoing connections, the returned string has that node's stage with the
\* output label [out], whatever the order in which the nodes were created,
\* and no other stage carries [out].
C25_DefaultOutput ==
    (StringReturned /\ validate(Graph) = <<>> /\ goutputs = <<>>
                    /\ Cardinality(Terminals) = 1) =>
        /\ StagesReturned
        /\ \A t \in Terminals :
              /\ t \in Range(Stages)
              /\ "[out]" \in Range(NodeOutputLabels(Graph, t))
        /\ \A n \in Range(Stages) \ Terminals :
              "[out]" \notin Range(NodeOutputLabels(Graph, n))

----------------------------------------------------------------------------
(* C26 *)

\* the inputs fed by output pad p of node a: <<t, i>> is the i-th entry of
\* node t's inputs
Consumers(a, p) ==
    UNION { {<<t, i>> : i \in {j \in 1..Len(nodes[t].inputs) :
                                    nodes[t].inputs[j] = <<a, p>>}} : t \in Ids }

\* C26: when output pad p of a node feeds several inputs and the consuming
\* nodes have no input-label override, every consuming stage of the returned
\* string references, for that input, the one label
\* a.get_output_label(p).
C26_FanOut ==
    StringReturned =>
        /\ StagesReturned
        /\ \A a \in Ids, p \in Pads :
              Cardinality(Consumers(a, p)) >= 2 =>
                 \A e \in Consumers(a, p) :
                    (e[1] \in Range(gnodes) /\ nodes[e[1]].input_labels = <<>>) =>
                       /\ e[1] \in Range(Stages)
                       /\ Len(NodeInputLabels(Graph, e[1])) = Len(nodes[e[1]].inputs)
                       /\ NodeInputLabels(Graph, e[1])[e[2]]
                             = "[" \o get_output_label(nodes, a, p) \o "]"

\* a valid graph whose node 1 feeds nodes 2 and 3 from output pad 1 has
\* been serialized
C26_Witness ==
    /\ StringReturned
    /\ validate(Graph) = <<>>
    /\ Len(nodes) = 3
    /\ Consumers(1, 1) = {<<2, 1>>, <<3, 1>>}
    /\ nodes[2].input_labels = <<>> /\ nodes[3].input_labels = <<>>

----------------------------------------------------------------------------
(* C27 *)

\* C27: for every binding graph.inputs[name] = (node, pad), in every string
\* returned by the converter the stage of the node carries [name] among its
\* input labels, however many entries node.inputs has.
C27_ExternalInputsAppear ==
    StringReturned =>
        /\ StagesReturned
        /\ \A i \in 1..Len(ginputs) :
              /\ ginputs[i][2][1] \in Range(Stages)
              /\ ("[" \o ginputs[i][1] \o "]")
                    \in Range(NodeInputLabels(Graph, ginputs[i][2][1]))

----------------------------------------------------------------------------
(* C28 *)

\* dictionary d maps key k to value v
Maps(d, k, v) == k \in Keys(d) /\ DictGet(d, k) = v

\* C28: after any sequence of set_input and set_output calls, rebinding of a
\* name included, node.input_labels[pad] is a name exactly when
\* graph.inputs[name] is (node, pad), and node.output_labels[pad] is a name
\* exactly when graph.outputs[name] is (node, pad).
C28_BindingConsistency ==
    \A n \in Ids, p \in Pads :
        /\ \A name \in InputNames :
              Maps(nodes[n].input_labels, p, name) <=> Maps(ginputs, name, <<n, p>>)
        /\ \A name \in OutputNames :
              Maps(nodes[n].output_labels, p, name) <=> Maps(goutputs, name, <<n, p>>)

----------------------------------------------------------------------------
(* C29 *)

\* number of entries of seq whose first component is x
CountFirst(seq, x) == Cardinality({i \in 1..Len(seq) : seq[i][1] = x})

\* C29: after any sequence of add_input and connect calls, for every ordered
\* pair (a, b) of nodes a.outputs has as many entries with node b as
\* b.inputs has entries with source a, and the placeholder of a None source
\* has no counterpart in any outputs list: the outputs lists together have
\* as many entries as the inputs lists have entries with a source.
C29_EdgeCountSymmetry ==
    /\ \A a \in Ids, b \in Ids :
          CountFirst(nodes[a].outputs, b) = CountFirst(nodes[b].inputs, a)
    /\ \A a \in Ids : CountFirst(nodes[a].outputs, 0) = 0
    /\ SumLen([a \in Ids |-> nodes[a].outputs])
          = NumInputs - SumLen([a \in Ids |-> SelectSeq(nodes[a].inputs, LAMBDA e : e[1] = 0)])

\* node 2 has a placeholder input and an input connected from node 1
C29_Witness ==
    /\ Len(nodes) >= 2
    /\ CountFirst(nodes[2].inputs, 0) = 1
    /\ CountFirst(nodes[2].inputs, 1) = 1
    /\ CountFirst(nodes[1].outputs, 2) = 1

----------------------------------------------------------------------------
(* C30 *)

\* the graph after a step
GraphAfter == [nodes |-> nodes', gnodes |-> gnodes', inputs |-> ginputs', outputs |-> goutputs']

\* C30: validate() and to_filter_string(), whether they succeed or fail
\* (on a graph with a cycle too), leave graph.nodes, graph.inputs,
\* graph.outputs and every field of every node unchanged, and the same call
\* made again right after, with no mutating call in between, has the same
\* outcome.
C30_ReadOnly ==
    [][ /\ (result'.kind = "errors" /\ Validate) =>
              /\ UNCHANGED <<nodes, gnodes, ginputs, goutputs, filters>>
              /\ result' = Returned("errors", validate(GraphAfter))
        /\ (result'.kind \in {"str", "raise"} /\ ToFilterString) =>
              /\ UNCHANGED <<nodes, gnodes, ginputs, goutputs, filters>>
              /\ result' = to_filter_string(GraphAfter) ]_<<result.kind, vars>>

\* to_filter_string() has failed on a graph of two or more nodes that has a
\* cycle and is bound to an external input and output
C30_Witness ==
    /\ result.kind = "raise"
    /\ HasCycle
    /\ Len(nodes) >= 2
    /\ ginputs # <<>> /\ goutputs # <<>>

====
